---- MODULE Spec2Model ----
(***************************************************************************)
(* Model of app.py: a Telegram bot that answers questions by keyword       *)
(* search in a Weaviate collection followed by an OpenAI completion.       *)
(*                                                                         *)
(* Text is modelled by TLA+ strings (Len, SubSeq and \o act on them        *)
(* character by character).  A certainty score is an integer number of     *)
(* thousandths (920 stands for 0.92), so that score*100 has exactly one    *)
(* decimal digit.  The asyncio event loop is the variable running: the     *)
(* task that currently holds the loop, or NoTask when the loop is free to  *)
(* resume any ready task.                                                  *)
(***************************************************************************)
EXTENDS Integers, Sequences, FiniteSets, TLC

(* ----------------------------- bounds ---------------------------------- *)
NumUpdates == 2

(* ------------------------ program constants ---------------------------- *)
limit == 3
ExcerptLen == 100

\* the events run_polling handles: inbound updates and polling errors
Updates == 1..NumUpdates
NoTask == 0

(* ------------------------- fixed user texts ---------------------------- *)
welcome_message ==
    "Welcome! I am here to help answer your questions using our knowledge base. "
    \o "You can ask me anything, and I will search through our database to provide "
    \o "relevant information with source citations."

help_message ==
    "Here's how to use this bot:\n\n"
    \o "1. Simply type your question and send it to me\n"
    \o "2. I will search our knowledge base and provide relevant information\n"
    \o "3. Each response includes source citations and confidence scores\n\n"
    \o "Available commands:\n"
    \o "/start - Begin interacting with the bot\n"
    \o "/help - Show this help message"

searching_message == "Searching knowledge base for relevant information..."

error_message ==
    "I apologize, but I encountered an error while processing your request. "
    \o "Please try again later or rephrase your question."

error_handler_message ==
    "I apologize, but an error occurred while processing your request. "
    \o "Please try again later."

(* --------------------------- string helpers ---------------------------- *)
Min(a, b) == IF a <= b THEN a ELSE b

\* s.startswith(p)
StartsWith(s, p) == Len(s) >= Len(p) /\ SubSeq(s, 1, Len(p)) = p

\* s.endswith(p)
EndsWith(s, p) == Len(s) >= Len(p) /\ SubSeq(s, Len(s) - Len(p) + 1, Len(s)) = p

\* p in s
Contains(s, p) ==
    \E i \in 0..(Len(s) - Len(p)) : SubSeq(s, i + 1, i + Len(p)) = p

Whitespace == {" ", "\n", "\t", "\r"}

RECURSIVE LStrip(_)
LStrip(s) ==
    IF Len(s) > 0 /\ SubSeq(s, 1, 1) \in Whitespace
    THEN LStrip(SubSeq(s, 2, Len(s)))
    ELSE s

RECURSIVE RStrip(_)
RStrip(s) ==
    IF Len(s) > 0 /\ SubSeq(s, Len(s), Len(s)) \in Whitespace
    THEN RStrip(SubSeq(s, 1, Len(s) - 1))
    ELSE s

\* str.strip()
Strip(s) == RStrip(LStrip(s))

(* ------------------- RAGSystem: pure parts of the code ----------------- *)

\* result['content'][:100]
Slice(content) == SubSeq(content, 1, Min(ExcerptLen, Len(content)))

\* result['content'][:100] + "..."
Excerpt(content) == Slice(content) \o "..."

\* the "sources" list comprehension of process_query
Sources(search_results) ==
    [i \in 1..Len(search_results) |->
        [content   |-> Excerpt(search_results[i].content),
         certainty |-> search_results[i].certainty]]

\* the dict returned by process_query
AnswerResult(response, search_results) ==
    [response |-> response, sources |-> Sources(search_results)]

\* "\n\n".join([item['content'] for item in context])
RECURSIVE ContextText(_)
ContextText(context) ==
    IF Len(context) = 0 THEN ""
    ELSE IF Len(context) = 1 THEN context[1].content
    ELSE context[1].content \o "\n\n" \o ContextText(Tail(context))

\* the prompt f-string of generate_response
Prompt(query, context) ==
    "Based on the following context information, provide a clear and accurate "
    \o "response to the question. Include only information that is supported by "
    \o "the context.\n\nContext:\n" \o ContextText(context)
    \o "\n\nQuestion: " \o query \o "\n\nAnswer:"

\* f"{certainty*100:.1f}" for a certainty given in thousandths
Confidence(certainty) ==
    ToString(certainty \div 10) \o "." \o ToString(certainty % 10)

\* one line of the References block
SourceLine(idx, source) ==
    ToString(idx) \o ". " \o source.content \o " "
    \o "(Confidence: " \o Confidence(source.certainty) \o "%)\n"

RECURSIVE SourceLines(_, _)
SourceLines(sources, idx) ==
    IF idx > Len(sources) THEN ""
    ELSE SourceLine(idx, sources[idx]) \o SourceLines(sources, idx + 1)

\* response_text built by handle_message
ResponseText(result) ==
    result.response \o "\n\nReferences:\n" \o SourceLines(result.sources, 1)

(* ------------------- the environment's input values -------------------- *)

\* update is None (an error raised outside the handling of an update)
NoChat == 0
NoUpdate == [text |-> "", chat |-> NoChat, has_message |-> FALSE]

\* a new message: update.message is set
NewMessage(text, chat) == [text |-> text, chat |-> chat, has_message |-> TRUE]

\* an edited message: update.message is None, update.effective_message is set
EditedMessage(text, chat) == [text |-> text, chat |-> chat, has_message |-> FALSE]

\* the updates run_polling receives (allowed_updates = ALL_TYPES); a message
\* without text (a photo) has text ""
InboundUpdates ==
    { NewMessage("/start", 1001), NewMessage("/help", 1001),
      NewMessage("/stop", 1001), NewMessage("/ hi", 1001), NewMessage("", 1002),
      NewMessage("What is photosynthesis?", 1001),
      NewMessage("Why is the sky blue?", 1002),
      EditedMessage("/start", 1002),
      EditedMessage("What is photosynthesis?", 1002) }

P_photo ==
    [content |-> "Photosynthesis converts light into energy.", certainty |-> 920]

\* 102 characters: two more than the slice keeps
P_long ==
    [content |->
        "Chlorophyll absorbs mostly blue and red light and reflects green light, "
        \o "which is why leaves look green",
     certainty |-> 873]

\* exactly 100 characters
P_exact ==
    [content |->
        "The sky is blue because air molecules scatter short blue wavelengths "
        \o "of sunlight more than red ones.",
     certainty |-> 1000]

\* what the bm25 query can return: at most limit objects, in ranked order
SearchResponses ==
    { r \in {<<>>, <<P_photo>>, <<P_exact, P_long, P_photo>>,
             <<P_photo, P_photo, P_long, P_exact>>} : Len(r) <= limit }

\* completion.choices[0].text as the service returns it
Completions == {" Photosynthesis is the process...\n"}

SearchError == "WeaviateQueryError: connection refused"
GenerationError == "APIConnectionError: rate limit reached"
SendError == "NetworkError: timed out"
AttributeError == "'NoneType' object has no attribute 'reply_text'"
PollingError == "Conflict: terminated by other getUpdates request"

(* ------------------------------ state ---------------------------------- *)
VARIABLES
    upd,             \* upd[u]: the Update object of task u
    pc,              \* pc[u]: where task u stands in its handler
    running,         \* the task holding the event loop, or NoTask
    search_calls,    \* search_calls[u]: bm25 queries issued for u
    search_results,  \* search_results[u]: local of process_query
    gen_calls,       \* gen_calls[u]: completions requested for u
    gen_args,        \* gen_args[u]: <<[query, context, prompt]>> handed to generation
    result,          \* result[u]: <<dict>> returned by process_query, or << >>
    error,           \* error[u]: text of the exception in flight or caught, "" if none
    sent,            \* sent[u]: reply_text / send_message calls made for u
    log              \* log[u]: lines printed for u

vars == <<upd, pc, running, search_calls, search_results, gen_calls, gen_args,
          result, error, sent, log>>

Init ==
    /\ upd = [u \in Updates |-> NoUpdate]
    /\ pc = [u \in Updates |-> "idle"]
    /\ running = NoTask
    /\ search_calls = [u \in Updates |-> 0]
    /\ search_results = [u \in Updates |-> <<>>]
    /\ gen_calls = [u \in Updates |-> 0]
    /\ gen_args = [u \in Updates |-> <<>>]
    /\ result = [u \in Updates |-> <<>>]
    /\ error = [u \in Updates |-> ""]
    /\ sent = [u \in Updates |-> <<>>]
    /\ log = [u \in Updates |-> <<>>]

\* a task may run when the loop is free or already its own
LoopAvailable(u) == running \in {NoTask, u}

\* the record kept of one reply_text / send_message call (made, whether or
\* not the transport then delivers it)
Message(u, by, text) ==
    [chat |-> upd[u].chat, text |-> text, by |-> by]

(* ------------------------- main: dispatch ------------------------------ *)

Letters ==
    {"a", "b", "c", "d", "e", "f", "g", "h", "i", "j", "k", "l", "m",
     "n", "o", "p", "q", "r", "s", "t", "u", "v", "w", "x", "y", "z"}

\* the message starts with a bot_command entity (filters.COMMAND)
IsCommand(text) ==
    /\ Len(text) >= 2
    /\ SubSeq(text, 1, 1) = "/"
    /\ SubSeq(text, 2, 2) \in Letters

RECURSIVE FirstWord(_)
FirstWord(s) ==
    IF Len(s) = 0 \/ SubSeq(s, 1, 1) \in Whitespace THEN ""
    ELSE SubSeq(s, 1, 1) \o FirstWord(SubSeq(s, 2, Len(s)))

\* the command of a command message, without the slash
CommandName(text) == FirstWord(SubSeq(text, 2, Len(text)))

\* the handlers registered by main, tried in order; "none" drops the update
Handler(update) ==
    IF IsCommand(update.text) /\ CommandName(update.text) = "start" THEN "start"
    ELSE IF IsCommand(update.text) /\ CommandName(update.text) = "help"
         THEN "help_command"
    ELSE IF update.text # "" /\ ~IsCommand(update.text) THEN "handle_message"
    ELSE "none"

\* run_polling hands one inbound update to the first matching handler
dispatch(u) ==
    /\ pc[u] = "idle"
    /\ running = NoTask
    /\ \E update \in InboundUpdates :
          /\ upd' = [upd EXCEPT ![u] = update]
          /\ pc' = [pc EXCEPT ![u] =
                       IF Handler(update) = "none" THEN "done" ELSE Handler(update)]
    /\ UNCHANGED <<running, search_calls, search_results, gen_calls, gen_args,
                   result, error, sent, log>>

\* run_polling fails outside the handling of an update (a network error
\* while fetching): the error handlers are called with update None
polling_error(u) ==
    /\ pc[u] = "idle"
    /\ running = NoTask
    /\ error' = [error EXCEPT ![u] = PollingError]
    /\ pc' = [pc EXCEPT ![u] = "error_handler"]
    /\ UNCHANGED <<upd, running, search_calls, search_results, gen_calls,
                   gen_args, result, sent, log>>

(* ------------------------- start, help_command ------------------------- *)

\* a command handler: update.message.reply_text(text), nothing else
CommandReply(u, by, text) ==
    /\ pc[u] = by
    /\ LoopAvailable(u)
    /\ running' = NoTask
    /\ IF ~upd[u].has_message
       THEN \* update.message is None: the attribute access raises
            /\ error' = [error EXCEPT ![u] = AttributeError]
            /\ pc' = [pc EXCEPT ![u] = "error_handler"]
            /\ sent' = sent
       ELSE \E ok \in BOOLEAN :
            /\ sent' = [sent EXCEPT ![u] = Append(@, Message(u, by, text))]
            /\ error' = [error EXCEPT ![u] = IF ok THEN @ ELSE SendError]
            /\ pc' = [pc EXCEPT ![u] = IF ok THEN "done" ELSE "error_handler"]
    /\ UNCHANGED <<upd, search_calls, search_results, gen_calls, gen_args,
                   result, log>>

start(u) == CommandReply(u, "start", welcome_message)

help_command(u) == CommandReply(u, "help_command", help_message)

(* ---------------------------- handle_message --------------------------- *)

\* faulty variant: handle_message without its startswith('/') return
IsQueryNoSlashCheck(update) ==
    /\ update.has_message
    /\ update.text # ""

\* the two early returns of handle_message
IsQuery(update) ==
    /\ update.has_message
    /\ update.text # ""
    /\ ~StartsWith(update.text, "/")

\* entry of handle_message up to the first await: the early returns, then
\* the "Searching..." notice (inside the try block)
handle_message(u) ==
    /\ pc[u] = "handle_message"
    /\ LoopAvailable(u)
    /\ running' = NoTask
    /\ IF ~IsQuery(upd[u])
       THEN /\ pc' = [pc EXCEPT ![u] = "done"]
            /\ UNCHANGED <<sent, error>>
       ELSE \E ok \in BOOLEAN :
            /\ sent' = [sent EXCEPT ![u] =
                           Append(@, Message(u, "handle_message", searching_message))]
            /\ error' = [error EXCEPT ![u] = IF ok THEN @ ELSE SendError]
            /\ pc' = [pc EXCEPT ![u] = IF ok THEN "process_query" ELSE "except"]
    /\ UNCHANGED <<upd, search_calls, search_results, gen_calls, gen_args,
                   result, log>>

(* ------------------------- RAGSystem.process_query --------------------- *)

\* faulty variant: the bm25 query is off-loaded like the completion, the task gives
\* up the event loop while it lasts
search_vector_db_call_offloaded(u) ==
    /\ pc[u] = "process_query"
    /\ LoopAvailable(u)
    /\ running' = NoTask
    /\ search_calls' = [search_calls EXCEPT ![u] = @ + 1]
    /\ pc' = [pc EXCEPT ![u] = "search_vector_db"]
    /\ UNCHANGED <<upd, search_results, gen_calls, gen_args, result, error,
                   sent, log>>

\* process_query calls search_vector_db, which issues the bm25 query: a
\* plain blocking call, the task keeps the event loop while it lasts
search_vector_db_call(u) ==
    /\ pc[u] = "process_query"
    /\ LoopAvailable(u)
    /\ running' = u
    /\ search_calls' = [search_calls EXCEPT ![u] = @ + 1]
    /\ pc' = [pc EXCEPT ![u] = "search_vector_db"]
    /\ UNCHANGED <<upd, search_results, gen_calls, gen_args, result, error,
                   sent, log>>

\* faulty variant: the except block of search_vector_db swallows the error and
\* returns an empty list, so the run goes on to generation
search_vector_db_return_fallback(u) ==
    /\ pc[u] = "search_vector_db"
    /\ running = u
    /\ \/ \E response \in SearchResponses :
            /\ search_results' = [search_results EXCEPT ![u] = response]
            /\ UNCHANGED <<error, log>>
       \/ /\ log' = [log EXCEPT ![u] =
                        Append(@, "Error searching vector database: " \o SearchError)]
          /\ search_results' = [search_results EXCEPT ![u] = <<>>]
          /\ UNCHANGED error
    /\ pc' = [pc EXCEPT ![u] = "generate_response"]
    /\ UNCHANGED <<upd, running, search_calls, gen_calls, gen_args, result, sent>>

\* the bm25 query returns its objects, or raises: print and re-raise
search_vector_db_return(u) ==
    /\ pc[u] = "search_vector_db"
    /\ running = u
    /\ \/ \E response \in SearchResponses :
            /\ search_results' = [search_results EXCEPT ![u] = response]
            /\ pc' = [pc EXCEPT ![u] = "generate_response"]
            /\ UNCHANGED <<error, log>>
       \/ /\ error' = [error EXCEPT ![u] = SearchError]
          /\ log' = [log EXCEPT ![u] =
                        Append(@, "Error searching vector database: " \o SearchError)]
          /\ pc' = [pc EXCEPT ![u] = "except"]
          /\ UNCHANGED search_results
    /\ UNCHANGED <<upd, running, search_calls, gen_calls, gen_args, result,
                   sent>>

\* the sequence q in reverse order
Reverse(q) == [i \in 1..Len(q) |-> q[Len(q) + 1 - i]]

\* faulty variant: the passages reach generate_response in reverse order
ContextOfReversed(u) == Reverse(search_results[u])

\* the context list process_query hands to generate_response
ContextOf(u) == search_results[u]

\* faulty variant: process_query answers by itself when the search found nothing
generate_response_call_short_circuit(u) ==
    /\ pc[u] = "generate_response"
    /\ running = u
    /\ IF search_results[u] = <<>>
       THEN /\ result' = [result EXCEPT ![u] =
                             <<AnswerResult("No relevant information found.", <<>>)>>]
            /\ pc' = [pc EXCEPT ![u] = "reply"]
            /\ UNCHANGED <<running, gen_calls, gen_args>>
       ELSE /\ running' = NoTask
            /\ gen_calls' = [gen_calls EXCEPT ![u] = @ + 1]
            /\ gen_args' = [gen_args EXCEPT ![u] =
                               <<[query   |-> upd[u].text,
                                  context |-> search_results[u],
                                  prompt  |-> Prompt(upd[u].text, search_results[u])]>>]
            /\ pc' = [pc EXCEPT ![u] = "to_thread"]
            /\ UNCHANGED result
    /\ UNCHANGED <<upd, search_calls, search_results, error, sent, log>>

\* generate_response builds the prompt and awaits asyncio.to_thread(...):
\* the completion runs in a worker thread and the task gives up the loop
generate_response_call(u) ==
    /\ pc[u] = "generate_response"
    /\ running = u
    /\ running' = NoTask
    /\ gen_calls' = [gen_calls EXCEPT ![u] = @ + 1]
    /\ gen_args' = [gen_args EXCEPT ![u] =
                       <<[query   |-> upd[u].text,
                          context |-> ContextOf(u),
                          prompt  |-> Prompt(upd[u].text, ContextOf(u))]>>]
    /\ pc' = [pc EXCEPT ![u] = "to_thread"]
    /\ UNCHANGED <<upd, search_calls, search_results, result, error, sent, log>>

\* faulty variant: the results are kept in an attribute of the shared rag_system
\* object, so a run cites what the latest search of any run stored
CitedResultsShared(u) ==
    LET others == {v \in Updates \ {u} : search_results[v] # <<>>}
    IN  IF others = {} THEN search_results[u]
        ELSE search_results[CHOOSE v \in others : TRUE]

\* the search results process_query cites in its return value
CitedResults(u) == search_results[u]

\* the worker thread finishes and the task resumes: generate_response strips
\* the completion and process_query returns its dict, or the error is
\* printed and re-raised
generate_response_return(u) ==
    /\ pc[u] = "to_thread"
    /\ LoopAvailable(u)
    /\ running' = u
    /\ \/ \E text \in Completions :
            /\ result' = [result EXCEPT ![u] =
                             <<AnswerResult(Strip(text), CitedResults(u))>>]
            /\ pc' = [pc EXCEPT ![u] = "reply"]
            /\ UNCHANGED <<error, log>>
       \/ /\ error' = [error EXCEPT ![u] = GenerationError]
          /\ log' = [log EXCEPT ![u] =
                        Append(@, "Error generating response: " \o GenerationError)]
          /\ pc' = [pc EXCEPT ![u] = "except"]
          /\ UNCHANGED result
    /\ UNCHANGED <<upd, search_calls, search_results, gen_calls, gen_args,
                   sent>>

(* ---------------------- handle_message, continued ---------------------- *)

\* lines 134-141: format the reply and send it
handle_message_reply(u) ==
    /\ pc[u] = "reply"
    /\ running = u
    /\ running' = NoTask
    /\ \E ok \in BOOLEAN :
          /\ sent' = [sent EXCEPT ![u] =
                         Append(@, Message(u, "handle_message",
                                           ResponseText(result[u][1])))]
          /\ error' = [error EXCEPT ![u] = IF ok THEN @ ELSE SendError]
          /\ pc' = [pc EXCEPT ![u] = IF ok THEN "done" ELSE "except"]
    /\ UNCHANGED <<upd, search_calls, search_results, gen_calls, gen_args,
                   result, log>>

\* faulty variant: the except block reports the exception to the user
ExceptTextWithError(e) == "Error processing message: " \o e

\* the text the except block sends for the exception e
ExceptText(e) == error_message

\* lines 142-148: print the error, send the fixed apology; a failure of this
\* send leaves the handler
handle_message_except(u) ==
    /\ pc[u] = "except"
    /\ LoopAvailable(u)
    /\ running' = NoTask
    /\ log' = [log EXCEPT ![u] = Append(@, "Error processing message: " \o error[u])]
    /\ \E ok \in BOOLEAN :
          /\ sent' = [sent EXCEPT ![u] =
                         Append(@, Message(u, "handle_message", ExceptText(error[u])))]
          /\ error' = [error EXCEPT ![u] = IF ok THEN @ ELSE SendError]
          /\ pc' = [pc EXCEPT ![u] = IF ok THEN "done" ELSE "error_handler"]
    /\ UNCHANGED <<upd, search_calls, search_results, gen_calls, gen_args,
                   result>>

(* ----------------------------- error_handler --------------------------- *)

\* faulty variant: error_handler without its "if update and update.effective_chat"
HookMessagesUnguarded(update) == <<error_handler_message>>

\* "if update and update.effective_chat": the messages error_handler sends
HookMessages(update) ==
    IF update # NoUpdate /\ update.chat # NoChat
    THEN <<error_handler_message>>
    ELSE <<>>

\* an exception left a handler, or was raised outside any handler: print it
\* and, when there is a chat, send the apology there (a failure of this
\* send is only logged by the library)
error_handler(u) ==
    /\ pc[u] = "error_handler"
    /\ LoopAvailable(u)
    /\ running' = NoTask
    /\ log' = [log EXCEPT ![u] = Append(@, "Error occurred: " \o error[u])]
    /\ sent' = [sent EXCEPT ![u] =
                   @ \o [i \in 1..Len(HookMessages(upd[u])) |->
                            Message(u, "error_handler", HookMessages(upd[u])[i])]]
    /\ pc' = [pc EXCEPT ![u] = "done"]
    /\ UNCHANGED <<upd, search_calls, search_results, gen_calls, gen_args,
                   result, error>>

(* ----------------------------- specification --------------------------- *)

Next ==
    \/ \E u \in Updates : dispatch(u)
    \/ \E u \in Updates : polling_error(u)
    \/ \E u \in Updates : start(u)
    \/ \E u \in Updates : help_command(u)
    \/ \E u \in Updates : handle_message(u)
    \/ \E u \in Updates : search_vector_db_call(u)
    \/ \E u \in Updates : search_vector_db_return(u)
    \/ \E u \in Updates : generate_response_call(u)
    \/ \E u \in Updates : generate_response_return(u)
    \/ \E u \in Updates : handle_message_reply(u)
    \/ \E u \in Updates : handle_message_except(u)
    \/ \E u \in Updates : error_handler(u)

Spec == Init /\ [][Next]_vars

(* ------------------------- vocabulary of the claims -------------------- *)

\* the element x occurs in the sequence q
InSeq(x, q) == \E i \in 1..Len(q) : q[i] = x

\* the messages of sent[u] that the function by sent
SentBy(u, by) == SelectSeq(sent[u], LAMBDA m : m.by = by)

\* the texts of the messages sent for u
SentTexts(u) == { sent[u][i].text : i \in 1..Len(sent[u]) }

\* the search step of u's run failed (search_vector_db printed its error)
SearchFailed(u) ==
    InSeq("Error searching vector database: " \o SearchError, log[u])

\* the generation step of u's run failed
GenerationFailed(u) ==
    InSeq("Error generating response: " \o GenerationError, log[u])

\* the except block of handle_message has handled the exception e
Caught(u, e) == InSeq("Error processing message: " \o e, log[u])

\* the global error hook has run for u
HookRan(u) == \E i \in 1..Len(log[u]) : StartsWith(log[u][i], "Error occurred: ")

\* the search step of u's run has returned successfully
SearchSucceeded(u) ==
    /\ search_calls[u] > 0
    /\ pc[u] # "search_vector_db"
    /\ ~SearchFailed(u)

ErrorTexts == {SearchError, GenerationError, SendError, AttributeError, PollingError}

\* process_query has returned a result for u and handle_message has made
\* the reply_text call that follows it
ReplySent(u) ==
    /\ result[u] # <<>>
    /\ pc[u] \in {"except", "error_handler", "done"}

\* the text of that call: the second message of handle_message, after the
\* "Searching..." notice
Reply(u) == SentBy(u, "handle_message")[2].text

\* the texts the program sends whatever the query
FixedTexts ==
    {welcome_message, help_message, searching_message, error_message,
     error_handler_message}

\* no fixed text shows a References block, an answer or an error text
FixedTextsAreClean ==
    \A t \in FixedTexts :
        /\ ~Contains(t, "References:")
        /\ \A c \in Completions : ~Contains(t, Strip(c))
        /\ \A e \in ErrorTexts : ~Contains(t, e)

(* ------------------------------- C1 ------------------------------------ *)

\* C1: when the search step of a run fails, generation is never invoked in
\* that run, process_query returns no result, and the failure propagates to
\* the caller: it is the exception the except block of handle_message gets.
C1_SearchFailurePropagates ==
    \A u \in Updates :
        SearchFailed(u) =>
            /\ gen_calls[u] = 0
            /\ gen_args[u] = <<>>
            /\ result[u] = <<>>
            /\ pc[u] \in {"except", "error_handler", "done"}
            /\ pc[u] = "except" => error[u] = SearchError
            /\ pc[u] # "except" => Caught(u, SearchError)
            /\ ~ReplySent(u)

C1_Witness ==
    \E u \in Updates :
        /\ SearchFailed(u)
        /\ Caught(u, SearchError)
        /\ pc[u] = "done"

(* ------------------------------- C2 ------------------------------------ *)

\* C2: a result has one cited passage per passage found, in search order,
\* each with its passage's score, each excerpt at most 100 characters long
\* with "..." added only when the content was truncated.
C2_ExcerptsAsClaimed ==
    \A u \in Updates :
        result[u] # <<>> =>
            LET sources == result[u][1].sources
                found == search_results[u]
            IN  /\ Len(sources) = Len(found)
                /\ \A i \in 1..Len(found) :
                      /\ sources[i].certainty = found[i].certainty
                      /\ Len(sources[i].content) <= ExcerptLen
                      /\ Len(found[i].content) <= ExcerptLen
                            => sources[i].content = found[i].content
                      /\ Len(found[i].content) > ExcerptLen
                            => /\ EndsWith(sources[i].content, "...")
                               /\ StartsWith(found[i].content,
                                             SubSeq(sources[i].content, 1,
                                                    Len(sources[i].content) - 3))

(* ------------------------------- C3 ------------------------------------ *)

\* C3: when the search or the generation step of a message's run fails, the
\* handler sends the fixed apology (once), sends no answer and no References
\* block for that message, and nothing sent contains the text of an error.
C3_FailureYieldsFixedApology ==
    \A u \in Updates :
        (SearchFailed(u) \/ GenerationFailed(u)) =>
            /\ pc[u] \in {"error_handler", "done"} =>
                  SentBy(u, "handle_message") =
                      << Message(u, "handle_message", searching_message),
                         Message(u, "handle_message", error_message) >>
            /\ pc[u] = "except" =>
                  SentBy(u, "handle_message") =
                      << Message(u, "handle_message", searching_message) >>
            /\ SentTexts(u) \subseteq FixedTexts
            /\ FixedTextsAreClean

C3_Witness ==
    \E u \in Updates :
        /\ GenerationFailed(u)
        /\ pc[u] = "done"
        /\ InSeq(Message(u, "handle_message", error_message), sent[u])

(* ------------------------------- C4 ------------------------------------ *)

\* C4: the final reply is the answer, a blank line, "References:", and one
\* line per passage; for the single passage "Photosynthesis converts light
\* into energy." with score 0.92 that line is
\* "1. Photosynthesis converts light into energy. (Confidence: 92.0%)".
C4_ReplyAsClaimed ==
    \A u \in Updates :
        (ReplySent(u) /\ search_results[u] = <<P_photo>>) =>
            Reply(u) = result[u][1].response \o "\n\nReferences:\n"
                \o "1. Photosynthesis converts light into energy. (Confidence: 92.0%)\n"

(* ------------------------------- C5 ------------------------------------ *)

\* C5: generation is requested only after the search of the same run has
\* returned successfully, it is handed exactly the passages found, in the
\* order found, and while a run is inside its search call it has requested
\* no generation.
C5_SearchThenGeneration ==
    \A u \in Updates :
        /\ gen_calls[u] > 0 =>
              /\ SearchSucceeded(u)
              /\ pc[u] \notin {"process_query", "search_vector_db", "generate_response"}
              /\ gen_args[u] =
                    << [query   |-> upd[u].text,
                        context |-> search_results[u],
                        prompt  |-> Prompt(upd[u].text, search_results[u])] >>
        /\ pc[u] \in {"process_query", "search_vector_db"} =>
              gen_calls[u] = 0 /\ gen_args[u] = <<>>

C5_Witness ==
    \E u \in Updates :
        /\ pc[u] = "to_thread"
        /\ gen_calls[u] = 1
        /\ search_results[u] = <<P_exact, P_long, P_photo>>
        /\ gen_args[u][1].context = <<P_exact, P_long, P_photo>>

(* ------------------------------- C6 ------------------------------------ *)

\* the part of the state that belongs to the handling of v
TaskState(v) ==
    <<upd[v], pc[v], search_calls[v], search_results[v], gen_calls[v],
      gen_args[v], result[v], error[v], sent[v], log[v]>>

C8_HookSendsSameApology ==
    \A u \in Updates :
        \A i \in 1..Len(sent[u]) :
            sent[u][i].by = "error_handler" => sent[u][i].text = error_message

\* C8, amended: when the error hook has run with a chat available it has
\* made exactly one send, to that chat, of its own fixed apology text, which
\* is not the text handle_message sends; with no update it has sent nothing.
C8_HookSendsItsOwnApology ==
    \A u \in Updates :
        /\ (HookRan(u) /\ upd[u] # NoUpdate) =>
              /\ SentBy(u, "error_handler") =
                    << [chat |-> upd[u].chat, text |-> error_handler_message,
                        by |-> "error_handler"] >>
              /\ upd[u].chat # NoChat
              /\ error_handler_message # error_message
        /\ (HookRan(u) /\ upd[u] = NoUpdate) => sent[u] = <<>>
        /\ ~HookRan(u) => SentBy(u, "error_handler") = <<>>

\* the hook has run after an error left handle_message, and after an error
\* raised outside any update
C8_Witness ==
    \E u, v \in Updates :
        /\ HookRan(u)
        /\ Caught(u, SearchError)
        /\ pc[u] = "done"
        /\ Len(SentBy(u, "error_handler")) = 1
        /\ HookRan(v)
        /\ upd[v] = NoUpdate
        /\ pc[v] = "done"

(* ------------------------------- C9 ------------------------------------ *)

C10_ZeroPassagesStillGenerates ==
    \A u \in Updates :
        (SearchSucceeded(u) /\ search_results[u] = <<>>) =>
            /\ pc[u] = "generate_response" \/ gen_calls[u] = 1
            /\ gen_args[u] # <<>> =>
                  /\ gen_args[u][1].context = <<>>
                  /\ gen_args[u][1].prompt =
                        "Based on the following context information, provide a clear "
                        \o "and accurate response to the question. Include only "
                        \o "information that is supported by the context."
                        \o "\n\nContext:\n\n\nQuestion: " \o upd[u].text \o "\n\nAnswer:"
            /\ result[u] # <<>> => result[u][1].sources = <<>>
            /\ ReplySent(u) =>
                  Reply(u) = result[u][1].response \o "\n\nReferences:\n"
            /\ InSeq(Message(u, "handle_message", error_message), sent[u]) =>
                  GenerationFailed(u) \/ Caught(u, SendError)

C10_Witness ==
    \E u \in Updates :
        /\ SearchSucceeded(u)
        /\ search_results[u] = <<>>
        /\ gen_calls[u] = 1
        /\ ReplySent(u)
        /\ pc[u] = "done"
        /\ sent[u][Len(sent[u])].text =
              "Photosynthesis is the process...\n\nReferences:\n"

====
